---- MODULE Spec2Model ----
(***************************************************************************)
(* Model of HttpApiPrivateIntegrationEcsStack                              *)
(* (lib/http-api-private-integration-ecs-stack.ts).                        *)
(*                                                                         *)
(* The constructor declares the topology in five steps (setupVpc,          *)
(* setupAlb, setupVpcEndpointsForEcr, setupEcsService,                     *)
(* setupApiGatewayVpcLink).  The declared resources are then evaluated by  *)
(* the load balancer, the ECS scheduler and the HTTP API: requests are     *)
(* routed, tasks are started, stopped and health-checked, and the desired  *)
(* count is changed.  Resources are taken to exist in the order in which   *)
(* the constructor declares them.                                          *)
(*                                                                         *)
(* Paths are sequences of tokens: "/customers/42" is                       *)
(* <<"/", "customers", "/", "42">>.                                        *)
(***************************************************************************)
EXTENDS Integers, Sequences, FiniteSets, TLC

VARIABLES
    pc,                   \* index of the next constructor statement
    vpc,                  \* this.vpc
    internalAlb,          \* this.internalAlb
    internalAlbListener,  \* this.internalAlbListener (with rules and default action)
    endpointSg,           \* InterfaceEndpointSecurityGroup
    endpoints,            \* VPC endpoints added to the VPC
    targetGroups,         \* target groups created by registerLoadBalancerTargets
    service,              \* the FargateService
    bridge,               \* VPC link, HTTP API, integration and route
    tasks,                \* running replicas of the service
    resp                  \* outcome of the request handled in the last step

vars == <<pc, vpc, internalAlb, internalAlbListener, endpointSg,
          endpoints, targetGroups, service, bridge, tasks, resp>>

----------------------------------------------------------------------------
(* Bounds of the model *)

MaxDesiredCount == 2

(* Request inputs *)

Root == <<"/">>
Customers == <<"/", "customers">>
Customer42 == <<"/", "customers", "/", "42">>
Orders == <<"/", "orders">>

Paths == {Root, Customers, Customer42, Orders}
Methods == {"GET", "POST"}

Undefined == [undefined |-> TRUE]
NoTask == [running |-> FALSE]
NoResponse == [kind |-> "none"]

----------------------------------------------------------------------------
(* Program constants *)

maxAzs == 2
natGateways == 0
listenerPort == 80
desiredCount == 2
endpointPort == 443

(* Variant: the service assigns public IPs *)
assignPublicIp_true == TRUE

assignPublicIp == FALSE

(* Variant: the default action answers with an error status *)
DefaultAction_serverError == [status |-> 503, messageBody |-> "No routes defined"]

DefaultAction == [status |-> 200, messageBody |-> "No routes defined"]

(* Variant: the bridge is set up before the load balancer *)
constructor_bridgeFirst ==
    <<"setupVpc", "setupApiGatewayVpcLink", "setupAlb", "setupVpcEndpointsForEcr",
      "setupEcsService">>

constructor ==
    <<"setupVpc", "setupAlb", "setupVpcEndpointsForEcr", "setupEcsService",
      "setupApiGatewayVpcLink">>

(* Variant: the first rule's pattern is "/*" *)
loadBalancerTargets_rootWildcard ==
    << [newTargetGroupId |-> "SampleApiTargetGroup",
        priority |-> 1,
        healthCheckPath |-> <<"/">>,
        pathPatterns |-> {<<"/", "*">>}],
       [newTargetGroupId |-> "SampleApiCustomerTargetGroup",
        priority |-> 2,
        healthCheckPath |-> <<"/">>,
        pathPatterns |-> {<<"/", "customers">>}] >>

(* The two targets passed to registerLoadBalancerTargets *)
loadBalancerTargets ==
    << [newTargetGroupId |-> "SampleApiTargetGroup",
        priority |-> 1,
        healthCheckPath |-> Root,
        pathPatterns |-> {Root}],
       [newTargetGroupId |-> "SampleApiCustomerTargetGroup",
        priority |-> 2,
        healthCheckPath |-> Root,
        pathPatterns |-> {Customers}] >>

routeKey == [path |-> <<"/", "{proxy+}">>, method |-> "ANY"]

(* Variant: the integration invokes the listener with a fixed method *)
integrationMethod_get == "GET"

integrationMethod == "ANY"

----------------------------------------------------------------------------
(* Helpers *)

Min(a, b) == IF a < b THEN a ELSE b

Range(s) == {s[i] : i \in 1..Len(s)}

IsDefined(x) == x # Undefined

----------------------------------------------------------------------------
(* Vpc: one subnet group per subnet configuration and zone.  Without NAT   *)
(* gateways the default configuration is a public and an isolated group,   *)
(* otherwise a public and a private (egress through NAT) group.  CIDR      *)
(* blocks are handed out in order, group by group and zone by zone.  Every *)
(* environment offers at least maxAzs zones, so the VPC spans maxAzs.      *)

SubnetGroupTypes(nat) ==
    IF nat = 0 THEN <<"Public", "Isolated">> ELSE <<"Public", "PrivateWithEgress">>

NewVpc(nat) ==
    LET n == maxAzs
        types == SubnetGroupTypes(nat)
    IN  [subnets |-> [i \in 1..(Len(types) * n) |->
                        [type |-> types[((i - 1) \div n) + 1],
                         az |-> ((i - 1) % n) + 1,
                         cidr |-> i - 1]],
         natGateways |-> IF nat = 0 THEN 0 ELSE Min(nat, n)]

SubnetsOfType(v, type) == SelectSeq(v.subnets, LAMBDA s : s.type = type)

(* vpc.selectSubnets: an explicit type, or the default placement           *)
selectSubnets(v, type) ==
    IF type # "Default" THEN SubnetsOfType(v, type)
    ELSE IF SubnetsOfType(v, "PrivateWithEgress") # <<>>
         THEN SubnetsOfType(v, "PrivateWithEgress")
    ELSE IF SubnetsOfType(v, "Isolated") # <<>>
         THEN SubnetsOfType(v, "Isolated")
    ELSE SubnetsOfType(v, "Public")

----------------------------------------------------------------------------
(* State after super(scope, id, props) *)

Init ==
    /\ pc = 1
    /\ vpc = Undefined
    /\ internalAlb = Undefined
    /\ internalAlbListener = Undefined
    /\ endpointSg = Undefined
    /\ endpoints = {}
    /\ targetGroups = <<>>
    /\ service = Undefined
    /\ bridge = Undefined
    /\ tasks = [t \in 1..MaxDesiredCount |-> NoTask]
    /\ resp = NoResponse

Constructing(step) == pc <= Len(constructor) /\ constructor[pc] = step

Deployed == pc > Len(constructor)

setupVpc ==
    /\ Constructing("setupVpc")
    /\ vpc' = NewVpc(natGateways)
    /\ pc' = pc + 1
    /\ resp' = NoResponse
    /\ UNCHANGED <<internalAlb, internalAlbListener, endpointSg,
                   endpoints, targetGroups, service, bridge, tasks>>

(* internalAlb.addListener: a listener without rules or default action    *)
addListener(id, port) ==
    [id |-> id, port |-> port, defaultAction |-> Undefined, rules |-> {}]

(* internalAlbListener.addAction without conditions: the default action    *)
addAction(listener, action) ==
    [listener EXCEPT !.defaultAction = action]

(* Security group InternalAlbSg, the internal load balancer, its listener  *)
(* on port 80 and the listener's default action.                           *)
setupAlb ==
    /\ Constructing("setupAlb")
    /\ internalAlb' =
          [internetFacing |-> FALSE,
           subnets |-> selectSubnets(vpc, "Isolated"),
           securityGroup |-> [ingress |-> {[peer |-> "0.0.0.0/0", port |-> listenerPort]}]]
    /\ internalAlbListener' =
          addAction(addListener("InternalHttpListener", listenerPort), DefaultAction)
    /\ pc' = pc + 1
    /\ resp' = NoResponse
    /\ UNCHANGED <<vpc, endpointSg, endpoints, targetGroups,
                   service, bridge, tasks>>

(* SecurityGroup.addIngressRule: an identical rule is not added twice      *)
addIngressRule(sg, peer, port) ==
    [sg EXCEPT !.ingress = @ \cup {[peer |-> peer, port |-> port]}]

(* Variant: the loop misses the first subnet *)
AddIngressRules_skipFirst(sg, subnets) ==
    [sg EXCEPT !.ingress =
        @ \cup {[peer |-> subnets[i].cidr, port |-> endpointPort] : i \in 2..Len(subnets)}]

(* for (const privateSubnet of selectedSubnets.subnets) addIngressRule(..) *)
RECURSIVE AddIngressRules(_, _)
AddIngressRules(sg, subnets) ==
    IF subnets = <<>> THEN sg
    ELSE AddIngressRules(addIngressRule(sg, Head(subnets).cidr, endpointPort),
                         Tail(subnets))

InterfaceEndpoint(id, name, subnets, sg) ==
    [id |-> id, class |-> "Interface", service |-> name, subnets |-> subnets,
     securityGroups |-> {sg}, privateDnsEnabled |-> TRUE]

GatewayEndpoint(id, name, subnets) ==
    [id |-> id, class |-> "Gateway", service |-> name, subnets |-> subnets,
     securityGroups |-> {}, privateDnsEnabled |-> FALSE]

setupVpcEndpointsForEcr ==
    /\ Constructing("setupVpcEndpointsForEcr")
    /\ LET selectedSubnets == selectSubnets(vpc, "Isolated")
           sg == AddIngressRules([ingress |-> {}], selectedSubnets)
       IN  /\ endpointSg' = sg
           /\ endpoints' =
                {InterfaceEndpoint("EcrInterfaceEndpointDkr",
                                   "com.amazonaws.us-east-1.ecr.dkr", selectedSubnets, sg),
                 InterfaceEndpoint("EcrInterfaceEndpointApi",
                                   "com.amazonaws.us-east-1.ecr.api", selectedSubnets, sg),
                 InterfaceEndpoint("CloudWatchInterfaceEndpoint",
                                   "logs", selectedSubnets, sg),
                 GatewayEndpoint("S3GatewayEndpoint", "s3", selectedSubnets)}
    /\ pc' = pc + 1
    /\ resp' = NoResponse
    /\ UNCHANGED <<vpc, internalAlb, internalAlbListener,
                   targetGroups, service, bridge, tasks>>

(* Cluster, task definition, container and FargateService.  A service      *)
(* without vpcSubnets is placed in the public subnets when it assigns      *)
(* public IPs and by the default placement otherwise.                      *)
setupEcsService ==
    /\ Constructing("setupEcsService")
    /\ ~IsDefined(service)
    /\ service' =
          [cluster |-> "SampleApi",
           containerName |-> "SampleApi",
           containerPort |-> 80,
           desiredCount |-> desiredCount,
           assignPublicIp |-> assignPublicIp,
           subnets |-> selectSubnets(vpc, IF assignPublicIp THEN "Public" ELSE "Default"),
           loadBalancers |-> <<>>]
    /\ resp' = NoResponse
    /\ UNCHANGED <<pc, vpc, internalAlb, internalAlbListener,
                   endpointSg, endpoints, targetGroups, bridge, tasks>>

(* ecsService.registerLoadBalancerTargets(...targets): for each target, in *)
(* order, a new target group, a listener rule that forwards to it, and the *)
(* attachment of that group to the service.                                *)
registerLoadBalancerTargets ==
    /\ Constructing("setupEcsService")
    /\ IsDefined(service)
    /\ IsDefined(internalAlbListener)
    /\ Len(service.loadBalancers) < Len(loadBalancerTargets)
    /\ LET i == Len(service.loadBalancers) + 1
           t == loadBalancerTargets[i]
       IN  /\ targetGroups' =
                 Append(targetGroups,
                        [id |-> t.newTargetGroupId,
                         healthCheckPath |-> t.healthCheckPath,
                         protocol |-> "HTTP"])
           /\ internalAlbListener' =
                 [internalAlbListener EXCEPT !.rules =
                     @ \cup {[priority |-> t.priority,
                              pathPatterns |-> t.pathPatterns,
                              targetGroup |-> t.newTargetGroupId]}]
           /\ service' =
                 [service EXCEPT !.loadBalancers = Append(@, t.newTargetGroupId)]
           /\ pc' = IF i = Len(loadBalancerTargets) THEN pc + 1 ELSE pc
    /\ resp' = NoResponse
    /\ UNCHANGED <<vpc, internalAlb, endpointSg, endpoints,
                   bridge, tasks>>

(* A reference to this.internalAlbListener as it is when it is read *)
ListenerRef ==
    IF IsDefined(internalAlbListener) THEN [ref |-> internalAlbListener.id]
    ELSE Undefined

(* VPC link, HTTP API, ALB integration and the route *)
setupApiGatewayVpcLink ==
    /\ Constructing("setupApiGatewayVpcLink")
    /\ bridge' =
          [vpcLink |-> [name |-> "HttpVpcLink-ECS",
                        subnets |-> selectSubnets(vpc, "Isolated")],
           httpApi |-> [apiName |-> "sampleApi-ECS"],
           integration |-> [listener |-> ListenerRef,
                            method |-> integrationMethod],
           routes |-> {routeKey}]
    /\ pc' = pc + 1
    /\ resp' = NoResponse
    /\ UNCHANGED <<vpc, internalAlb, internalAlbListener,
                   endpointSg, endpoints, targetGroups, service, tasks>>

----------------------------------------------------------------------------
(* The service's replicas.  The scheduler keeps the number of running      *)
(* tasks at the desired count, places each task in one of the service's    *)
(* subnets and registers it in every target group attached to the service; *)
(* a stopped task is deregistered from all of them.                        *)

TaskIds == 1..MaxDesiredCount

Running == {t \in TaskIds : tasks[t].running}

TargetGroupIds == {targetGroups[i].id : i \in 1..Len(targetGroups)}

AttachedGroups == IF IsDefined(service) THEN Range(service.loadBalancers) ELSE {}

ServiceSubnets == IF IsDefined(service) THEN Range(service.subnets) ELSE {}

(* Registered targets of a target group, and those passing its health check *)
Targets(tg) == IF tg \in AttachedGroups THEN Running ELSE {}

HealthyTargets(tg) == {t \in Targets(tg) : tg \in tasks[t].healthy}

StartTask(t, s) ==
    /\ Deployed
    /\ ~tasks[t].running
    /\ Cardinality(Running) < service.desiredCount
    /\ s \in ServiceSubnets
    /\ tasks' = [tasks EXCEPT ![t] =
                    [running |-> TRUE, subnet |-> s,
                     publicIp |-> service.assignPublicIp, healthy |-> {}]]
    /\ resp' = NoResponse
    /\ UNCHANGED <<pc, vpc, internalAlb, internalAlbListener,
                   endpointSg, endpoints, targetGroups, service, bridge>>

(* Scale-in, or replacement of a task that fails a health check *)
StopTask(t) ==
    /\ Deployed
    /\ tasks[t].running
    /\ \/ Cardinality(Running) > service.desiredCount
       \/ \E tg \in AttachedGroups : tg \notin tasks[t].healthy
    /\ tasks' = [tasks EXCEPT ![t] = NoTask]
    /\ resp' = NoResponse
    /\ UNCHANGED <<pc, vpc, internalAlb, internalAlbListener,
                   endpointSg, endpoints, targetGroups, service, bridge>>

(* The result of target group tg's health check of task t *)
HealthCheck(t, tg, passed) ==
    /\ Deployed
    /\ tasks[t].running
    /\ tg \in AttachedGroups
    /\ passed # (tg \in tasks[t].healthy)
    /\ tasks' = [tasks EXCEPT ![t].healthy =
                    IF passed THEN @ \cup {tg} ELSE @ \ {tg}]
    /\ resp' = NoResponse
    /\ UNCHANGED <<pc, vpc, internalAlb, internalAlbListener,
                   endpointSg, endpoints, targetGroups, service, bridge>>

(* Variant: scaling to zero detaches the target groups and their rules *)
SetDesiredCount_detach(n) ==
    /\ Deployed
    /\ n # service.desiredCount
    /\ service' = [service EXCEPT !.desiredCount = n,
                                  !.loadBalancers = IF n = 0 THEN <<>> ELSE @]
    /\ internalAlbListener' =
          [internalAlbListener EXCEPT !.rules = IF n = 0 THEN {} ELSE @]
    /\ resp' = NoResponse
    /\ UNCHANGED <<pc, vpc, internalAlb, endpointSg, endpoints,
                   targetGroups, bridge, tasks>>

(* The service's desired count is changed *)
SetDesiredCount(n) ==
    /\ Deployed
    /\ n # service.desiredCount
    /\ service' = [service EXCEPT !.desiredCount = n]
    /\ resp' = NoResponse
    /\ UNCHANGED <<pc, vpc, internalAlb, internalAlbListener,
                   endpointSg, endpoints, targetGroups, bridge, tasks>>

----------------------------------------------------------------------------
(* Listener rule evaluation.  A path pattern matches the whole path; "*"   *)
(* stands for any run of tokens and "?" for one token.                     *)

RECURSIVE WildcardMatch(_, _)
WildcardMatch(pattern, path) ==
    IF pattern = <<>> THEN path = <<>>
    ELSE IF Head(pattern) = "*"
         THEN \/ WildcardMatch(Tail(pattern), path)
              \/ (path # <<>> /\ WildcardMatch(pattern, Tail(path)))
    ELSE /\ path # <<>>
         /\ (Head(pattern) = "?" \/ Head(pattern) = Head(path))
         /\ WildcardMatch(Tail(pattern), Tail(path))

RuleMatches(rule, path) ==
    \E pattern \in rule.pathPatterns : WildcardMatch(pattern, path)

MatchingRules(listener, path) == {r \in listener.rules : RuleMatches(r, path)}

(* The rules that win for a path: those of the lowest priority number      *)
SelectRules(listener, path) ==
    {r \in MatchingRules(listener, path) :
        \A q \in MatchingRules(listener, path) : r.priority <= q.priority}

(* Variant: the forward action ignores the health of the targets *)
EligibleTargets_ignoreHealth(tg) == Targets(tg)

(* The targets a forward action may pick: the healthy ones; when the group *)
(* has registered targets and none is healthy, all of them.                *)
EligibleTargets(tg) ==
    IF HealthyTargets(tg) # {} THEN HealthyTargets(tg) ELSE Targets(tg)

TargetResponse(t, tg) ==
    IF tg \in tasks[t].healthy THEN {[status |-> 200, body |-> "SampleApi"]}
    ELSE {[status |-> 200, body |-> "SampleApi"], [status |-> 502, body |-> ""]}

(* Forward to a target group: 503 when nothing is registered in it *)
Forward(rule) ==
    LET tg == rule.targetGroup
    IN  IF EligibleTargets(tg) = {}
        THEN {[rule |-> rule.priority, targetGroup |-> tg, target |-> 0,
               targetHealthy |-> FALSE, status |-> 503, body |-> ""]}
        ELSE {[rule |-> rule.priority, targetGroup |-> tg, target |-> t,
               targetHealthy |-> (tg \in tasks[t].healthy),
               status |-> r.status, body |-> r.body] :
                 <<t, r>> \in {<<t, r>> \in EligibleTargets(tg) \X
                                  {[status |-> 200, body |-> "SampleApi"],
                                   [status |-> 502, body |-> ""]} :
                                 r \in TargetResponse(t, tg)}}

FixedResponse(action) ==
    {[rule |-> 0, targetGroup |-> "none", target |-> 0, targetHealthy |-> FALSE,
      status |-> action.status, body |-> action.messageBody]}

(* What the listener may answer to a request for a path *)
Evaluate(listener, path) ==
    IF SelectRules(listener, path) = {} THEN FixedResponse(listener.defaultAction)
    ELSE UNION {Forward(r) : r \in SelectRules(listener, path)}

Response(kind, method, path, lmethod, lpath, out) ==
    [kind |-> kind, method |-> method, path |-> path, accepted |-> TRUE,
     lmethod |-> lmethod, lpath |-> lpath,
     rule |-> out.rule, targetGroup |-> out.targetGroup, target |-> out.target,
     targetHealthy |-> out.targetHealthy, status |-> out.status, body |-> out.body]

(* A request sent to the listener from inside the VPC *)
ListenerRequest(method, path) ==
    /\ IsDefined(internalAlbListener)
    /\ IsDefined(internalAlbListener.defaultAction)
    /\ \E out \in Evaluate(internalAlbListener, path) :
          resp' = Response("listener", method, path, method, path, out)
    /\ UNCHANGED <<pc, vpc, internalAlb, internalAlbListener,
                   endpointSg, endpoints, targetGroups, service, bridge, tasks>>

----------------------------------------------------------------------------
(* The HTTP API.  A route key's path is matched token by token; a greedy   *)
(* variable {proxy+} ends the route path and stands for one or more        *)
(* tokens.                                                                 *)

RECURSIVE RoutePathMatches(_, _)
RoutePathMatches(routePath, path) ==
    IF routePath = <<>> THEN path = <<>>
    ELSE IF Head(routePath) = "{proxy+}"
         THEN Tail(routePath) = <<>> /\ path # <<>>
    ELSE /\ path # <<>>
         /\ Head(routePath) = Head(path)
         /\ RoutePathMatches(Tail(routePath), Tail(path))

RouteMatches(route, method, path) ==
    /\ route.method \in {"ANY", method}
    /\ RoutePathMatches(route.path, path)

(* The part of the route path before the greedy variable, and the value    *)
(* the variable takes for a path the route matches                         *)
LiteralPrefix(routePath) ==
    SelectSeq(routePath, LAMBDA tok : tok # "{proxy+}")

ProxyValue(routePath, path) ==
    SubSeq(path, Len(LiteralPrefix(routePath)) + 1, Len(path))

(* The integration has no parameter mapping: the request goes to the       *)
(* listener with the path it came with.                                    *)
ForwardedPath(route, path) ==
    LiteralPrefix(route.path) \o ProxyValue(route.path, path)

ForwardedMethod(integration, method) ==
    IF integration.method = "ANY" THEN method ELSE integration.method

NotFound(method, path) ==
    [kind |-> "public", method |-> method, path |-> path, accepted |-> FALSE,
     lmethod |-> "none", lpath |-> <<>>,
     rule |-> 0, targetGroup |-> "none", target |-> 0, targetHealthy |-> FALSE,
     status |-> 404, body |-> "Not Found"]

(* A request sent to the public endpoint of the HTTP API *)
PublicRequest(method, path) ==
    /\ Deployed
    /\ IF \E route \in bridge.routes : RouteMatches(route, method, path)
       THEN \E route \in {r \in bridge.routes : RouteMatches(r, method, path)} :
              LET lmethod == ForwardedMethod(bridge.integration, method)
                  lpath == ForwardedPath(route, path)
              IN  \E out \in Evaluate(internalAlbListener, lpath) :
                     resp' = Response("public", method, path, lmethod, lpath, out)
       ELSE resp' = NotFound(method, path)
    /\ UNCHANGED <<pc, vpc, internalAlb, internalAlbListener,
                   endpointSg, endpoints, targetGroups, service, bridge, tasks>>

----------------------------------------------------------------------------

Next ==
    \/ setupVpc
    \/ setupAlb
    \/ setupVpcEndpointsForEcr
    \/ setupEcsService
    \/ registerLoadBalancerTargets
    \/ setupApiGatewayVpcLink
    \/ \E t \in TaskIds : \E s \in ServiceSubnets : StartTask(t, s)
    \/ \E t \in TaskIds : StopTask(t)
    \/ \E t \in TaskIds : \E tg \in TargetGroupIds : \E passed \in BOOLEAN :
          HealthCheck(t, tg, passed)
    \/ \E n \in 0..MaxDesiredCount : SetDesiredCount(n)
    \/ \E method \in Methods : \E path \in Paths : ListenerRequest(method, path)
    \/ \E method \in Methods : \E path \in Paths : PublicRequest(method, path)

Spec == Init /\ [][Next]_vars

----------------------------------------------------------------------------
(* Properties *)

GroupA == "SampleApiTargetGroup"
GroupB == "SampleApiCustomerTargetGroup"

Rules == IF IsDefined(internalAlbListener) THEN internalAlbListener.rules ELSE {}

(* A request reached the listener's rule evaluation in the last step *)
Evaluated == resp.kind # "none" /\ resp.accepted

(* pattern equals path, or is a proper prefix of it *)
ExactOrPrefix(pattern, path) ==
    Len(pattern) <= Len(path) /\ SubSeq(path, 1, Len(pattern)) = pattern

(* C1 as stated: with both rules registered, a path that equals or merely  *)
(* extends "/customers", and that no rule of lower priority number         *)
(* matches, is routed to target group B; a path matching "/" is routed to  *)
(* target group A.                                                         *)
C1_PrefixRoutedToCustomers ==
    (Evaluated /\ Cardinality(Rules) = 2) =>
        /\ (/\ ExactOrPrefix(Customers, resp.lpath)
            /\ ~\E r \in Rules : r.priority < 2 /\ RuleMatches(r, resp.lpath))
              => resp.targetGroup = GroupB
        /\ resp.lpath = Root => resp.targetGroup = GroupA

(* C1 amended: with both rules registered, the request is handled by the   *)
(* matching rule of the lowest priority number, where a pattern matches    *)
(* only the whole path: exactly "/customers" is routed to target group B,  *)
(* exactly "/" to target group A, and every other path, "/customers/42"    *)
(* included, is routed to neither.                                         *)
C1_LowestMatchingRuleWins ==
    (Evaluated /\ Cardinality(Rules) = 2) =>
        /\ resp.rule # 0 =>
              \E r \in Rules :
                 /\ r.priority = resp.rule
                 /\ r.targetGroup = resp.targetGroup
                 /\ RuleMatches(r, resp.lpath)
                 /\ \A q \in Rules : RuleMatches(q, resp.lpath) => r.priority <= q.priority
        /\ resp.rule = 0 => \A q \in Rules : ~RuleMatches(q, resp.lpath)
        /\ resp.targetGroup = GroupB <=> resp.lpath = Customers
        /\ resp.targetGroup = GroupA <=> resp.lpath = Root

C1_Witness ==
    /\ resp.kind = "listener"
    /\ resp.path = Customers
    /\ resp.targetGroup = GroupB
    /\ resp.target # 0
    /\ resp.status = 200

(* C2: in every state of the listener (no rule, one rule, both rules), a   *)
(* request whose path matches no registered rule is answered with the      *)
(* fixed response 200 "No routes defined", by no target, whatever the      *)
(* health of the targets.                                                  *)
C2_UnmatchedGetsFixed200 ==
    (Evaluated /\ MatchingRules(internalAlbListener, resp.lpath) = {}) =>
        /\ resp.status = 200
        /\ resp.body = "No routes defined"
        /\ resp.target = 0
        /\ resp.targetGroup = "none"

C2_Witness ==
    /\ resp.kind = "listener"
    /\ Cardinality(Rules) = 1
    /\ resp.path = Customers
    /\ resp.status = 200
    /\ resp.body = "No routes defined"

(* Rule priorities of the listener are pairwise distinct (the part of C3   *)
(* that the constructor decides).                                          *)
PrioritiesDistinct ==
    \A r, q \in Rules : r.priority = q.priority => r = q

(* C4: the bridge exists only when the listener exists, has its default    *)
(* action, and is the listener the integration refers to.                  *)
C4_BridgeAfterListener ==
    IsDefined(bridge) =>
        /\ IsDefined(internalAlbListener)
        /\ IsDefined(internalAlbListener.defaultAction)
        /\ bridge.integration.listener = [ref |-> internalAlbListener.id]

C4_Witness ==
    /\ IsDefined(bridge)
    /\ Deployed
    /\ Cardinality(Rules) = 2

(* C5: the bridge has exactly one route, ANY /{proxy+}, and a request that *)
(* the route accepts is seen by the listener with the method and the path  *)
(* it had at the public endpoint.                                          *)
C5_RouteAndForwarding ==
    /\ IsDefined(bridge) =>
          bridge.routes = {[path |-> <<"/", "{proxy+}">>, method |-> "ANY"]}
    /\ (resp.kind = "public" /\ resp.accepted) =>
          /\ resp.lmethod = resp.method
          /\ resp.lpath = resp.path

C5_Witness ==
    /\ resp.kind = "public"
    /\ resp.accepted
    /\ resp.method = "POST"
    /\ resp.path = Customer42
    /\ resp.lpath = Customer42
    /\ resp.lmethod = "POST"

(* C6 as stated: every public request, to the root path included, is       *)
(* accepted by the route and evaluated by the listener; "/" reaches target *)
(* group A and "/customers" target group B.                                *)
C6_EveryPublicPathForwarded ==
    resp.kind = "public" =>
        /\ resp.accepted
        /\ resp.path = Root => resp.targetGroup = GroupA
        /\ resp.path = Customers => resp.targetGroup = GroupB

(* C7: no NAT gateway; the load balancer is internal and in isolated       *)
(* subnets only; every replica, through all starts, stops and              *)
(* replacements, is in an isolated subnet without a public IP; a           *)
(* dispatched request lands on such a replica.                             *)
C7_IsolatedPlacement ==
    /\ IsDefined(vpc) => vpc.natGateways = 0
    /\ IsDefined(internalAlb) =>
          /\ ~internalAlb.internetFacing
          /\ internalAlb.subnets # <<>>
          /\ \A s \in Range(internalAlb.subnets) : s.type = "Isolated"
    /\ \A t \in Running :
          /\ tasks[t].subnet.type = "Isolated"
          /\ tasks[t].subnet \in Range(vpc.subnets)
          /\ ~tasks[t].publicIp
    /\ (Evaluated /\ resp.target # 0) =>
          /\ resp.target \in Running
          /\ tasks[resp.target].subnet.type = "Isolated"

C7_Witness ==
    /\ Cardinality(Running) = 2
    /\ \E t, u \in Running : tasks[t].subnet.az # tasks[u].subnet.az
    /\ Evaluated
    /\ resp.target # 0

IsolatedCidrs ==
    {vpc.subnets[i].cidr : i \in {j \in 1..Len(vpc.subnets) : vpc.subnets[j].type = "Isolated"}}

ScalingStep ==
    /\ Deployed
    /\ (service.desiredCount # service'.desiredCount \/ tasks # tasks')

====
